---- MODULE Spec2Model ----
(***************************************************************************)
(* The COMPAS preprocessing notebook (data_preprocessing.ipynb) as a state *)
(* machine: the three tables read from data/compas.db are the input, each  *)
(* group of statements of the notebook is one step, and the four csv files *)
(* are the output.                                                         *)
(*                                                                         *)
(* A table is a sequence of rows, a row a record from column names to      *)
(* cells, and a cell is Null (SQL NULL, None, NaN) or <<v>>.  A text value *)
(* of the form "YYYY-MM-DD HH:MM:SS.ffffff" is the sequence of its         *)
(* space-separated words, each word the tuple of its numeric fields, so    *)
(* that Python's string order on it is the lexicographic order below.      *)
(***************************************************************************)
EXTENDS Integers, Sequences, FiniteSets, TLC

VARIABLES
    pc,                 \* the statement group that runs next
    dfd,                \* the tables read from the database
    first_arrest,
    ext_people,
    compas_df,
    first_screening_df,
    pivoted_df,
    final_df,
    fta_bins,
    grecid_bins,
    vrecid_bins,
    files,              \* the csv files written, in the order of their writing
    error               \* the exception that stopped the run, "" when none did

vars == <<pc, dfd, first_arrest, ext_people, compas_df, first_screening_df,
          pivoted_df, final_df, fta_bins, grecid_bins, vrecid_bins, files, error>>

-----------------------------------------------------------------------------
(* Cells *)

Null == <<>>

Some(v) == <<v>>

Val(c) == c[1]

isnull(c) == c = Null

-----------------------------------------------------------------------------
(* Column names and assessment types, as the characters they are made of *)

Chars ==
    ("id" :> <<"i","d">>) @@
    ("person_id" :> <<"p","e","r","s","o","n","_","i","d">>) @@
    ("sex" :> <<"s","e","x">>) @@
    ("age" :> <<"a","g","e">>) @@
    ("dob" :> <<"d","o","b">>) @@
    ("decile_score" :> <<"d","e","c","i","l","e","_","s","c","o","r","e">>) @@
    ("arrest_date" :> <<"a","r","r","e","s","t","_","d","a","t","e">>) @@
    ("age_at_first_arrest" :> <<"a","g","e","_","a","t","_","f","i","r","s","t","_","a","r","r","e","s","t">>) @@
    ("raw_score" :> <<"r","a","w","_","s","c","o","r","e">>) @@
    ("score_text" :> <<"s","c","o","r","e","_","t","e","x","t">>) @@
    ("marital_status" :> <<"m","a","r","i","t","a","l","_","s","t","a","t","u","s">>) @@
    ("rec_supervision_level" :> <<"r","e","c","_","s","u","p","e","r","v","i","s","i","o","n","_","l","e","v","e","l">>) @@
    ("Risk of Failure to Appear" :> <<"R","i","s","k"," ","o","f"," ","F","a","i","l","u","r","e"," ","t","o"," ","A","p","p","e","a","r">>) @@
    ("Risk of Recidivism" :> <<"R","i","s","k"," ","o","f"," ","R","e","c","i","d","i","v","i","s","m">>) @@
    ("Risk of Violence" :> <<"R","i","s","k"," ","o","f"," ","V","i","o","l","e","n","c","e">>) @@
    ("raw_score_risk_of_failure_to_appear" :> <<"r","a","w","_","s","c","o","r","e","_","r","i","s","k","_","o","f","_","f","a","i","l","u","r","e","_","t","o","_","a","p","p","e","a","r">>) @@
    ("raw_score_risk_of_recidivism" :> <<"r","a","w","_","s","c","o","r","e","_","r","i","s","k","_","o","f","_","r","e","c","i","d","i","v","i","s","m">>) @@
    ("raw_score_risk_of_violence" :> <<"r","a","w","_","s","c","o","r","e","_","r","i","s","k","_","o","f","_","v","i","o","l","e","n","c","e">>) @@
    ("decile_score_risk_of_failure_to_appear" :> <<"d","e","c","i","l","e","_","s","c","o","r","e","_","r","i","s","k","_","o","f","_","f","a","i","l","u","r","e","_","t","o","_","a","p","p","e","a","r">>) @@
    ("decile_score_risk_of_recidivism" :> <<"d","e","c","i","l","e","_","s","c","o","r","e","_","r","i","s","k","_","o","f","_","r","e","c","i","d","i","v","i","s","m">>) @@
    ("decile_score_risk_of_violence" :> <<"d","e","c","i","l","e","_","s","c","o","r","e","_","r","i","s","k","_","o","f","_","v","i","o","l","e","n","c","e">>) @@
    ("score_text_risk_of_failure_to_appear" :> <<"s","c","o","r","e","_","t","e","x","t","_","r","i","s","k","_","o","f","_","f","a","i","l","u","r","e","_","t","o","_","a","p","p","e","a","r">>) @@
    ("score_text_risk_of_recidivism" :> <<"s","c","o","r","e","_","t","e","x","t","_","r","i","s","k","_","o","f","_","r","e","c","i","d","i","v","i","s","m">>) @@
    ("score_text_risk_of_violence" :> <<"s","c","o","r","e","_","t","e","x","t","_","r","i","s","k","_","o","f","_","v","i","o","l","e","n","c","e">>) @@
    ("rs" :> <<"r","s">>) @@
    ("ds" :> <<"d","s">>) @@
    ("slevel" :> <<"s","l","e","v","e","l">>) @@
    ("risk_of_failure_to_appear" :> <<"r","i","s","k","_","o","f","_","f","a","i","l","u","r","e","_","t","o","_","a","p","p","e","a","r">>) @@
    ("fta" :> <<"f","t","a">>) @@
    ("risk_of_recidivism" :> <<"r","i","s","k","_","o","f","_","r","e","c","i","d","i","v","i","s","m">>) @@
    ("grecid" :> <<"g","r","e","c","i","d">>) @@
    ("risk_of_violence" :> <<"r","i","s","k","_","o","f","_","v","i","o","l","e","n","c","e">>) @@
    ("vrecid" :> <<"v","r","e","c","i","d">>) @@
    ("score_text_fta" :> <<"s","c","o","r","e","_","t","e","x","t","_","f","t","a">>) @@
    ("fta_text" :> <<"f","t","a","_","t","e","x","t">>) @@
    ("score_text_grecid" :> <<"s","c","o","r","e","_","t","e","x","t","_","g","r","e","c","i","d">>) @@
    ("grecid_text" :> <<"g","r","e","c","i","d","_","t","e","x","t">>) @@
    ("score_text_vrecid" :> <<"s","c","o","r","e","_","t","e","x","t","_","v","r","e","c","i","d">>) @@
    ("vrecid_text" :> <<"v","r","e","c","i","d","_","t","e","x","t">>) @@
    ("male" :> <<"m","a","l","e">>) @@
    ("rs_fta" :> <<"r","s","_","f","t","a">>) @@
    ("ds_fta" :> <<"d","s","_","f","t","a">>) @@
    ("rs_grecid" :> <<"r","s","_","g","r","e","c","i","d">>) @@
    ("ds_grecid" :> <<"d","s","_","g","r","e","c","i","d">>) @@
    ("rs_vrecid" :> <<"r","s","_","v","r","e","c","i","d">>) @@
    ("ds_vrecid" :> <<"d","s","_","v","r","e","c","i","d">>) @@
    ("ds_" :> <<"d","s","_">>) @@
    ("_" :> <<"_">>) @@
    (" " :> <<" ">>)

\* The string made of the characters cs.
Str(cs) == CHOOSE s \in DOMAIN Chars : Chars[s] = cs

\* str.lower(), on the capitals the assessment types hold.
Lower ==
    ("R" :> "r") @@ ("F" :> "f") @@ ("A" :> "a") @@ ("V" :> "v")

lower(cs) == [i \in 1..Len(cs) |-> IF cs[i] \in DOMAIN Lower THEN Lower[cs[i]] ELSE cs[i]]

\* str.replace(k, r): every non-overlapping occurrence of k, left to right.
RECURSIVE replace(_, _, _)
replace(cs, k, r) ==
    IF Len(cs) < Len(k) THEN cs
    ELSE IF SubSeq(cs, 1, Len(k)) = k
         THEN r \o replace(SubSeq(cs, Len(k) + 1, Len(cs)), k, r)
         ELSE <<cs[1]>> \o replace(Tail(cs), k, r)

\* k in cs
contains(cs, k) ==
    \E i \in 1..(Len(cs) - Len(k) + 1) : SubSeq(cs, i, i + Len(k) - 1) = k

\* str.strip()
RECURSIVE strip(_)
strip(cs) ==
    IF cs = <<>> THEN cs
    ELSE IF cs[1] = " " THEN strip(Tail(cs))
    ELSE IF cs[Len(cs)] = " " THEN strip(SubSeq(cs, 1, Len(cs) - 1))
    ELSE cs

-----------------------------------------------------------------------------
(* Dates *)

\* x.split(' ')[0], as a text again
FirstWord(text) == <<text[1]>>

\* The text "No_arrest"
NoArrest == << <<"No_arrest">> >>

IsLeap(y) == y % 4 = 0 /\ (y % 100 # 0 \/ y % 400 = 0)

DaysBeforeYear(y) ==
    LET p == y - 1 IN p * 365 + (p \div 4) - (p \div 100) + (p \div 400)

DaysInMonth(y, m) ==
    IF m = 2 THEN (IF IsLeap(y) THEN 29 ELSE 28)
    ELSE IF m \in {4, 6, 9, 11} THEN 30 ELSE 31

RECURSIVE DaysBeforeMonth(_, _)
DaysBeforeMonth(y, m) ==
    IF m = 1 THEN 0 ELSE DaysBeforeMonth(y, m - 1) + DaysInMonth(y, m - 1)

\* datetime.strptime(s, "%Y-%m-%d"): the date of a one-word text, as the
\* number of its day in the proleptic Gregorian calendar.
strptime(s) == DaysBeforeYear(s[1][1]) + DaysBeforeMonth(s[1][1], s[1][2]) + s[1][3]

\* round(num / den) of Python 3, den > 0: to the nearest integer, a tie to
\* the even one.
round(num, den) ==
    LET q == num \div den
        r == num % den
    IN  IF 2 * r < den THEN q
        ELSE IF 2 * r > den THEN q + 1
        ELSE IF q % 2 = 0 THEN q ELSE q + 1

\* time_diff(s1, s2, s3) on the cells of a row; days / 365.25 = 4 days / 1461.
time_diff(s1, s2, s3) ==
    IF Val(s2) = NoArrest THEN s3
    ELSE LET d1 == strptime(Val(s1))
             d2 == strptime(Val(s2))
         IN  Some(round(4 * (d2 - d1), 1461))

\* Python's order on two tuples of numbers of the same form
RECURSIVE LexLess(_, _)
LexLess(a, b) ==
    IF a = <<>> \/ b = <<>> THEN FALSE
    ELSE IF a[1] # b[1] THEN a[1] < b[1]
    ELSE LexLess(Tail(a), Tail(b))

\* Python's order on two texts of the form "YYYY-MM-DD HH:MM:SS"
RECURSIVE TextLess(_, _)
TextLess(a, b) ==
    IF a = <<>> \/ b = <<>> THEN FALSE
    ELSE IF a[1] # b[1] THEN LexLess(a[1], b[1])
    ELSE TextLess(Tail(a), Tail(b))

-----------------------------------------------------------------------------
(* Data frames: [columns |-> the set of column names, rows |-> the rows] *)

Frame(cols, rows) == [columns |-> cols, rows |-> rows]

\* The rows of rs at the indices keep, in order
Filter(rs, keep) ==
    LET f[i \in 0..Len(rs)] ==
            IF i = 0 THEN <<>>
            ELSE IF i \in keep THEN Append(f[i - 1], rs[i]) ELSE f[i - 1]
    IN  f[Len(rs)]

\* The concatenation of the sequences of parts
Concat(parts) ==
    LET f[i \in 0..Len(parts)] == IF i = 0 THEN <<>> ELSE f[i - 1] \o parts[i]
    IN  f[Len(parts)]

\* The numbers of S in increasing order
RECURSIVE Ascending(_)
Ascending(S) ==
    IF S = {} THEN <<>>
    ELSE LET m == CHOOSE x \in S : \A y \in S : x <= y
         IN  <<m>> \o Ascending(S \ {m})

\* df[cols]
project(df, cols) ==
    Frame(cols, [i \in 1..Len(df.rows) |-> [c \in cols |-> df.rows[i][c]]])

\* df.drop(columns=cols)
drop(df, cols) == project(df, df.columns \ cols)

\* df.rename(columns={old: new}), for a column named exactly old
rename(df, old, new) ==
    LET name(c) == IF c = old THEN new ELSE c
    IN  Frame({name(c) : c \in df.columns},
              [i \in 1..Len(df.rows) |->
                  [n \in {name(c) : c \in df.columns} |->
                      df.rows[i][CHOOSE c \in df.columns : name(c) = n]]])

\* df[col] = vals
assign(df, col, vals) ==
    Frame(df.columns \cup {col},
          [i \in 1..Len(df.rows) |->
              [c \in df.columns \cup {col} |->
                  IF c = col THEN vals[i] ELSE df.rows[i][c]]])

\* dropna that drops nothing
dropna_Nothing(df) == df

\* df.dropna(): the rows with no null cell
dropna(df) ==
    LET keep == {i \in 1..Len(df.rows) : \A c \in df.columns : ~isnull(df.rows[i][c])}
    IN  Frame(df.columns, Filter(df.rows, keep))

\* df.drop_duplicates(subset=key): the first row of every value of key
drop_duplicates(df, key) ==
    LET keep == {i \in 1..Len(df.rows) :
                    \A j \in 1..(i - 1) : df.rows[j][key] # df.rows[i][key]}
    IN  Frame(df.columns, Filter(df.rows, keep))

\* left.merge(right, on=on, how=how) for how in {"inner", "left"}: every
\* left row once per right row that agrees with it on the columns on, in
\* the order of left, and (how = "left") once with nulls when none does.
merge(left, right, on, how) ==
    LET cols == left.columns \cup right.columns
        new  == right.columns \ left.columns
        Match(l) ==
            Filter(right.rows,
                   {j \in 1..Len(right.rows) : \A k \in on : right.rows[j][k] = l[k]})
        Joined(l, r) == [c \in cols |-> IF c \in left.columns THEN l[c] ELSE r[c]]
        Alone(l) == [c \in cols |-> IF c \in left.columns THEN l[c] ELSE Null]
        Part(l) ==
            LET m == Match(l)
            IN  IF m = <<>>
                THEN (IF how = "left" THEN <<Alone(l)>> ELSE <<>>)
                ELSE [j \in 1..Len(m) |-> Joined(l, m[j])]
    IN  Frame(cols, Concat([i \in 1..Len(left.rows) |-> Part(left.rows[i])]))

\* rows.groupby(key).first().reset_index(): one row for every value of key,
\* in increasing order of key, each column holding its first non-null cell
\* among the rows of the group (null when it has none).
first(df, key) ==
    LET keys == Ascending({Val(df.rows[i][key]) : i \in 1..Len(df.rows)})
        Group(k) ==
            Filter(df.rows, {i \in 1..Len(df.rows) : df.rows[i][key] = Some(k)})
        FirstCell(g, c) ==
            LET nn == Filter(g, {i \in 1..Len(g) : ~isnull(g[i][c])})
            IN  IF nn = <<>> THEN Null ELSE nn[1][c]
    IN  Frame(df.columns,
              [n \in 1..Len(keys) |->
                  [c \in df.columns |->
                      IF c = key THEN Some(keys[n])
                      ELSE FirstCell(Group(keys[n]), c)]])

-----------------------------------------------------------------------------
(* The database: the tables people, casearrest and compas *)

TypeFTA == "Risk of Failure to Appear"

TypeRecid == "Risk of Recidivism"

TypeViolence == "Risk of Violence"

Types == <<TypeFTA, TypeRecid, TypeViolence>>

\* The columns of the three tables that the notebook reads.  The columns
\* of people that line 127 drops before anything reads them are left out.
PeopleCols == {"id", "sex", "age", "dob", "decile_score"}

ArrestCols == {"id", "person_id", "arrest_date"}

CompasCols == {"id", "person_id", "compas_assessment_id", "type_of_assessment",
               "raw_score", "decile_score", "score_text", "marital_status",
               "rec_supervision_level"}

Midnight == <<0, 0, 0>>

\* Bounds of the inputs
MaxArrests == 2

MaxCompas == 3

MaxNullRows == 2

Persons == {1, 2}

\* The person an assessment batch is of
Owner == (1 :> 1) @@ (2 :> 2) @@ (3 :> 1)

Dobs == { <<<<1980, 1, 1>>, Midnight>>, <<<<1981, 3, 15>>, Midnight>> }

ArrestTexts == { <<<<1980, 7, 1>>, Midnight>>, <<<<1980, 7, 1>>, <<13, 30, 0>>>>,
                 <<<<1980, 7, 2>>, Midnight>>, <<<<2000, 1, 1>>, Midnight>> }

\* Every sequence of at most n elements of S
RECURSIVE SeqsUpTo(_, _)
SeqsUpTo(S, n) ==
    IF n = 0 THEN {<<>>}
    ELSE LET shorter == SeqsUpTo(S, n - 1)
         IN  shorter \cup {Append(q, x) : q \in {r \in shorter : Len(r) = n - 1}, x \in S}

\* Every non-decreasing sequence of at most n numbers of lo..hi
RECURSIVE Rising(_, _, _)
Rising(lo, hi, n) ==
    IF n = 0 THEN {<<>>}
    ELSE {<<>>} \cup UNION {{<<i>> \o q : q \in Rising(i, hi, n - 1)} : i \in lo..hi}

PersonRow(p, sex, age, dob) ==
    [id |-> Some(p), sex |-> sex, age |-> Some(age), dob |-> dob,
     decile_score |-> Some(p)]

\* A people table: one row for every person, the persons' ids unique.
PeopleTable(sexOf, ageOf, dobOf) ==
    Frame(PeopleCols,
          [p \in 1..Cardinality(Persons) |-> PersonRow(p, sexOf[p], ageOf[p], dobOf[p])])

ArrestRow(i, k) ==
    [id |-> Some(i), person_id |-> Some(k[1]), arrest_date |-> Some(k[2])]

\* A casearrest table: the rows of the kinds ks, numbered as they come.
ArrestTable(ks) == Frame(ArrestCols, [i \in 1..Len(ks) |-> ArrestRow(i, ks[i])])

\* A compas row of batch a, type t and text txt; no two rows of a table
\* have the same id, raw score or decile score.
CompasRow(i, a, t, raw, decile, txt) ==
    [id |-> Some(i), person_id |-> Some(Owner[a]), compas_assessment_id |-> Some(a),
     type_of_assessment |-> Some(t), raw_score |-> raw, decile_score |-> decile,
     score_text |-> txt, marital_status |-> Some("Single"),
     rec_supervision_level |-> Some(a)]

\* The kinds of valid and of invalid rows: <<batch, type, score text>>
CompasKinds ==
    LET batches == <<3, 1, 2>>
        texts == <<"Low", "N/A">>
    IN  [n \in 1..18 |->
            <<batches[((n - 1) \div 6) + 1], Types[((n - 1) % 3) + 1],
              texts[(((n - 1) \div 3) % 2) + 1]>>]

CompasTable(ns) ==
    Frame(CompasCols,
          [i \in 1..Len(ns) |->
              CompasRow(i, CompasKinds[ns[i]][1], CompasKinds[ns[i]][2],
                        Some(10 + i), Some(i), Some(CompasKinds[ns[i]][3]))])

\* The kinds of rows of batch 1 with a null: <<type, null column>>
NullKinds ==
    {<<t, c>> : t \in {TypeFTA, TypeRecid, TypeViolence},
                c \in {"raw_score", "decile_score", "score_text", "none"}}

NullTable(ks) ==
    Frame(CompasCols,
          [i \in 1..Len(ks) |->
              CompasRow(i, 1, ks[i][1],
                        IF ks[i][2] = "raw_score" THEN Null ELSE Some(10 + i),
                        IF ks[i][2] = "decile_score" THEN Null ELSE Some(i),
                        IF ks[i][2] = "score_text" THEN Null ELSE Some("High"))])

\* Person 1 with a full first batch and a later one, person 2 with one
\* assessment only.
CompasBase == CompasTable(<<1, 7, 8, 9, 14>>)

ArrestBase == ArrestTable(<< <<1, <<<<2000, 1, 1>>, Midnight>>>> >>)

SexBase == (1 :> Some("Male")) @@ (2 :> Some("Female"))

AgeBase == (1 :> 40) @@ (2 :> 35)

DobBase == (1 :> <<<<<<1980, 1, 1>>, Midnight>>>>) @@ (2 :> <<<<<<1981, 3, 15>>, Midnight>>>>)

Empty == Frame({}, <<>>)

\* The runs that vary the arrests and the dates of birth
InitArrest ==
    /\ \E dobOf \in [Persons -> {Some(d) : d \in Dobs} \cup {Null}] :
       \E ks \in SeqsUpTo(Persons \X ArrestTexts, MaxArrests) :
            dfd = [people |-> PeopleTable(SexBase, AgeBase, dobOf),
                   casearrest |-> ArrestTable(ks),
                   compas |-> CompasBase]

\* The runs that vary the assessments
InitCompas ==
    /\ \E ns \in Rising(1, 18, MaxCompas) :
            dfd = [people |-> PeopleTable(SexBase, AgeBase, DobBase),
                   casearrest |-> ArrestBase,
                   compas |-> CompasTable(ns)]

\* The runs that vary the nulls of the assessments and the sex column
InitNulls ==
    /\ \E sexOf \in [Persons -> {Some("Male"), Some("Female"), Null}] :
       \E ks \in SeqsUpTo(NullKinds, MaxNullRows) :
            dfd = [people |-> PeopleTable(sexOf, AgeBase, DobBase),
                   casearrest |-> ArrestBase,
                   compas |-> NullTable(ks)]

Init ==
    /\ pc = "first_arrest"
    /\ InitArrest \/ InitCompas \/ InitNulls
    /\ first_arrest = Empty
    /\ ext_people = Empty
    /\ compas_df = Empty
    /\ first_screening_df = Empty
    /\ pivoted_df = Empty
    /\ final_df = Empty
    /\ fta_bins = Empty
    /\ grecid_bins = Empty
    /\ vrecid_bins = Empty
    /\ files = <<>>
    /\ error = ""

-----------------------------------------------------------------------------
(* Compute age-at-first-arrest column *)

\* The order of a descending sort: the latest arrest comes first
ArrestLess_Descending(r1, r2) ==
    IF isnull(r1.arrest_date) THEN FALSE
    ELSE IF isnull(r2.arrest_date) THEN TRUE
    ELSE TextLess(Val(r2.arrest_date), Val(r1.arrest_date))

\* The order of sort_values('arrest_date'): the texts in string order, the
\* nulls last.
ArrestLess(r1, r2) ==
    IF isnull(r1.arrest_date) THEN FALSE
    ELSE IF isnull(r2.arrest_date) THEN TRUE
    ELSE TextLess(Val(r1.arrest_date), Val(r2.arrest_date))

\* The orders sort_values('arrest_date') may leave the rows rs in, the sort
\* of one column being no stable one: every permutation with no row before
\* a smaller one.
SortedOrders(rs) ==
    {p \in [1..Len(rs) -> 1..Len(rs)] :
        /\ \A i, j \in 1..Len(rs) : i # j => p[i] # p[j]
        /\ \A i, j \in 1..Len(rs) : i < j => ~ArrestLess(rs[p[j]], rs[p[i]])}

\* The first_arrest table of lines 104-105 when the sort leaves the rows of
\* casearrest in the order p.
FirstArrestOf(casearrest, p) ==
    LET sorted == Frame(casearrest.columns,
                        [i \in 1..Len(casearrest.rows) |-> casearrest.rows[p[i]]])
    IN  project(first(sorted, "person_id"), {"arrest_date", "person_id"})

FirstArrest ==
    /\ pc = "first_arrest"
    /\ \E p \in SortedOrders(dfd.casearrest.rows) :
            first_arrest' = FirstArrestOf(dfd.casearrest, p)
    /\ pc' = "copy_people"
    /\ UNCHANGED <<dfd, ext_people, compas_df, first_screening_df, pivoted_df,
                   final_df, fta_bins, grecid_bins, vrecid_bins, files, error>>

\* ext_people after lines 108-114
CopiedPeople(people) ==
    rename(assign(people, "dob",
                  [i \in 1..Len(people.rows) |-> Some(FirstWord(Val(people.rows[i].dob)))]),
           "id", "person_id")

CopyPeople ==
    /\ pc = "copy_people"
    /\ \A i \in 1..Len(dfd.people.rows) : ~isnull(dfd.people.rows[i].dob)
    /\ ext_people' = CopiedPeople(dfd.people)
    /\ pc' = "merge_first_arrest"
    /\ UNCHANGED <<dfd, first_arrest, compas_df, first_screening_df, pivoted_df,
                   final_df, fta_bins, grecid_bins, vrecid_bins, files, error>>

\* A line 111 that lets a null date of birth through as a null
CopyPeopleFails_Propagates ==
    /\ pc = "copy_people"
    /\ \E i \in 1..Len(dfd.people.rows) : isnull(dfd.people.rows[i].dob)
    /\ ext_people' =
            rename(assign(dfd.people, "dob",
                          [i \in 1..Len(dfd.people.rows) |->
                              IF isnull(dfd.people.rows[i].dob) THEN Null
                              ELSE Some(FirstWord(Val(dfd.people.rows[i].dob)))]),
                   "id", "person_id")
    /\ pc' = "merge_first_arrest"
    /\ UNCHANGED <<dfd, first_arrest, compas_df, first_screening_df, pivoted_df,
                   final_df, fta_bins, grecid_bins, vrecid_bins, files, error>>

\* Line 111 on a null date of birth: None has no split.
CopyPeopleFails ==
    /\ pc = "copy_people"
    /\ \E i \in 1..Len(dfd.people.rows) : isnull(dfd.people.rows[i].dob)
    /\ ext_people' = dfd.people
    /\ error' = "AttributeError"
    /\ pc' = "stopped"
    /\ UNCHANGED <<dfd, first_arrest, compas_df, first_screening_df, pivoted_df,
                   final_df, fta_bins, grecid_bins, vrecid_bins, files>>

\* Lines 117-127 with the missing arrest dates filled with the date that
\* the comment of line 119 names
MergedFirstArrest_FilledWithDate(people, arrests) ==
    LET merged == merge(people, arrests, {"person_id"}, "left")
        filled(c) == IF isnull(c) THEN Some(<<<<2016, 1, 1>>, <<0, 0, 0>>>>) ELSE c
    IN  assign(merged, "arrest_date",
               [i \in 1..Len(merged.rows) |->
                   Some(FirstWord(Val(filled(merged.rows[i].arrest_date))))])

\* ext_people after lines 117-127
MergedFirstArrest(people, arrests) ==
    LET merged == merge(people, arrests, {"person_id"}, "left")
        filled(c) == IF isnull(c) THEN Some(NoArrest) ELSE c
    IN  assign(merged, "arrest_date",
               [i \in 1..Len(merged.rows) |->
                   Some(FirstWord(Val(filled(merged.rows[i].arrest_date))))])

MergeFirstArrest ==
    /\ pc = "merge_first_arrest"
    /\ ext_people' = MergedFirstArrest(ext_people, first_arrest)
    /\ pc' = "age_at_first_arrest"
    /\ UNCHANGED <<dfd, first_arrest, compas_df, first_screening_df, pivoted_df,
                   final_df, fta_bins, grecid_bins, vrecid_bins, files, error>>

\* ext_people after lines 140-143
WithAgeAtFirstArrest(people) ==
    drop(assign(people, "age_at_first_arrest",
                [i \in 1..Len(people.rows) |->
                    time_diff(people.rows[i].dob, people.rows[i].arrest_date,
                              people.rows[i].age)]),
         {"arrest_date", "dob"})

AgeAtFirstArrest ==
    /\ pc = "age_at_first_arrest"
    /\ ext_people' = WithAgeAtFirstArrest(ext_people)
    /\ pc' = "filter_compas"
    /\ UNCHANGED <<dfd, first_arrest, compas_df, first_screening_df, pivoted_df,
                   final_df, fta_bins, grecid_bins, vrecid_bins, files, error>>

-----------------------------------------------------------------------------
(* Join marital status and risk scores *)

\* A filter that keeps the "N/A" rows
valid_Unfiltered(df) == df

\* df[df["score_text"] != "N/A"]; a null differs from "N/A"
valid(df) ==
    Frame(df.columns,
          Filter(df.rows, {i \in 1..Len(df.rows) : df.rows[i].score_text # Some("N/A")}))

FilterCompas ==
    /\ pc = "filter_compas"
    /\ compas_df' = valid(dfd.compas)
    /\ pc' = "first_screening"
    /\ UNCHANGED <<dfd, first_arrest, ext_people, first_screening_df, pivoted_df,
                   final_df, fta_bins, grecid_bins, vrecid_bins, files, error>>

\* The order of sort_values(by=['person_id', 'compas_assessment_id'])
CompasLess(r1, r2) ==
    LexLess(<<Val(r1.person_id), Val(r1.compas_assessment_id)>>,
            <<Val(r2.person_id), Val(r2.compas_assessment_id)>>)

\* The rows rs in the order of the sort of line 166, which is stable: the
\* rows that agree on both columns stay in the order of rs.
sort_values(rs) ==
    LET Before(i, j) ==
            CompasLess(rs[i], rs[j]) \/ (~CompasLess(rs[j], rs[i]) /\ i < j)
        Rank(i) == 1 + Cardinality({j \in 1..Len(rs) : Before(j, i)})
    IN  [k \in 1..Len(rs) |-> rs[CHOOSE i \in 1..Len(rs) : Rank(i) = k]]

\* The columns lines 171-173 keep
cols == {"id", "type_of_assessment", "raw_score", "decile_score", "score_text",
         "person_id", "marital_status", "rec_supervision_level"}

\* Lines 166-173 keeping the first row of a person only, not its batch
FirstScreeningOf_FirstRowOnly(df) ==
    LET compas_df_sorted == Frame(df.columns, sort_values(df.rows))
        first_screening == first(compas_df_sorted, "person_id")
    IN  drop(first_screening, first_screening.columns \ cols)

\* first_screening_df after lines 166-173
FirstScreeningOf(df) ==
    LET compas_df_sorted == Frame(df.columns, sort_values(df.rows))
        first_screening == first(compas_df_sorted, "person_id")
        kept == merge(compas_df_sorted,
                      project(first_screening, {"person_id", "compas_assessment_id"}),
                      {"person_id", "compas_assessment_id"}, "inner")
    IN  drop(kept, kept.columns \ cols)

FirstScreening ==
    /\ pc = "first_screening"
    /\ first_screening_df' = FirstScreeningOf(compas_df)
    /\ pc' = "pivot"
    /\ UNCHANGED <<dfd, first_arrest, ext_people, compas_df, pivoted_df,
                   final_df, fta_bins, grecid_bins, vrecid_bins, files, error>>

values == <<"raw_score", "decile_score", "score_text">>

\* '_'.join(col).strip().replace(' ', '_').lower() of line 179
FlatName(col) ==
    Str(lower(replace(strip(Chars[col[1]] \o Chars["_"] \o Chars[col[2]]),
                      Chars[" "], Chars["_"])))

\* Whether two rows of df have the same index and column entry
HasDuplicateEntries(df, index, columns) ==
    \E i, j \in 1..Len(df.rows) :
        /\ i # j
        /\ df.rows[i][index] = df.rows[j][index]
        /\ df.rows[i][columns] = df.rows[j][columns]

\* pivoted_df after lines 178-180: one row for every value of index, one
\* column for every value column and every type that df holds.
pivot(df, index, columns) ==
    LET keys == Ascending({Val(df.rows[i][index]) : i \in 1..Len(df.rows)})
        pairs == {<<values[v], Val(df.rows[i][columns])>> :
                        v \in 1..Len(values), i \in 1..Len(df.rows)}
        names == {FlatName(col) : col \in pairs}
        Entry(k, col) ==
            LET at == Filter(df.rows, {i \in 1..Len(df.rows) :
                                /\ df.rows[i][index] = Some(k)
                                /\ df.rows[i][columns] = Some(col[2])})
            IN  IF at = <<>> THEN Null ELSE at[1][col[1]]
    IN  Frame({index} \cup names,
              [n \in 1..Len(keys) |->
                  [c \in {index} \cup names |->
                      IF c = index THEN Some(keys[n])
                      ELSE Entry(keys[n], CHOOSE col \in pairs : FlatName(col) = c)]])

Pivot ==
    /\ pc = "pivot"
    /\ ~HasDuplicateEntries(first_screening_df, "person_id", "type_of_assessment")
    /\ pivoted_df' = pivot(first_screening_df, "person_id", "type_of_assessment")
    /\ pc' = "join_scores"
    /\ UNCHANGED <<dfd, first_arrest, ext_people, compas_df, first_screening_df,
                   final_df, fta_bins, grecid_bins, vrecid_bins, files, error>>

\* Line 178 on two rows of one person and one type: "Index contains
\* duplicate entries, cannot reshape".
PivotFails ==
    /\ pc = "pivot"
    /\ HasDuplicateEntries(first_screening_df, "person_id", "type_of_assessment")
    /\ error' = "ValueError"
    /\ pc' = "stopped"
    /\ UNCHANGED <<dfd, first_arrest, ext_people, compas_df, first_screening_df,
                   pivoted_df, final_df, fta_bins, grecid_bins, vrecid_bins, files>>

\* Lines 184-185 without drop_duplicates
FinalOf_NoDropDuplicates(screening, pivoted) ==
    LET other_columns ==
            drop(screening, {"raw_score", "decile_score", "score_text", "type_of_assessment"})
    IN  merge(other_columns, pivoted, {"person_id"}, "inner")

\* final_df of lines 184-185
FinalOf(screening, pivoted) ==
    LET other_columns ==
            drop_duplicates(drop(screening, {"raw_score", "decile_score", "score_text",
                                             "type_of_assessment"}),
                            "person_id")
    IN  merge(other_columns, pivoted, {"person_id"}, "inner")

\* ext_people after lines 186-189
JoinedScores(people, final) ==
    drop(merge(people, final, {"person_id"}, "left"), {"id", "person_id", "decile_score"})

JoinScores ==
    /\ pc = "join_scores"
    /\ final_df' = FinalOf(first_screening_df, pivoted_df)
    /\ ext_people' = JoinedScores(ext_people, final_df')
    /\ pc' = "rename_columns"
    /\ UNCHANGED <<dfd, first_arrest, compas_df, first_screening_df, pivoted_df,
                   fta_bins, grecid_bins, vrecid_bins, files, error>>

-----------------------------------------------------------------------------
(* Rename some columns and values *)

\* repl with the short names of two assessment types exchanged
repl_Swapped ==
    << <<"raw_score", "rs">>,
       <<"decile_score", "ds">>,
       <<"rec_supervision_level", "slevel">>,
       <<"risk_of_failure_to_appear", "grecid">>,
       <<"risk_of_recidivism", "fta">>,
       <<"risk_of_violence", "vrecid">>,
       <<"score_text_fta", "fta_text">>,
       <<"score_text_grecid", "grecid_text">>,
       <<"score_text_vrecid", "vrecid_text">>,
       <<"sex", "male">> >>

\* The dictionary repl, in the order of its keys
repl ==
    << <<"raw_score", "rs">>,
       <<"decile_score", "ds">>,
       <<"rec_supervision_level", "slevel">>,
       <<"risk_of_failure_to_appear", "fta">>,
       <<"risk_of_recidivism", "grecid">>,
       <<"risk_of_violence", "vrecid">>,
       <<"score_text_fta", "fta_text">>,
       <<"score_text_grecid", "grecid_text">>,
       <<"score_text_vrecid", "vrecid_text">>,
       <<"sex", "male">> >>

\* The name of column c after the loop of lines 218-219
Shortened(c) ==
    LET f[n \in 0..Len(repl)] ==
            IF n = 0 THEN Chars[c]
            ELSE replace(f[n - 1], Chars[repl[n][1]], Chars[repl[n][2]])
    IN  Str(f[Len(repl)])

Renamed(df) ==
    LET names == {Shortened(c) : c \in df.columns}
    IN  Frame(names,
              [i \in 1..Len(df.rows) |->
                  [n \in names |-> df.rows[i][CHOOSE c \in df.columns : Shortened(c) = n]]])

RenameColumns ==
    /\ pc = "rename_columns"
    /\ ext_people' = Renamed(ext_people)
    /\ pc' = "retype"
    /\ UNCHANGED <<dfd, first_arrest, compas_df, first_screening_df, pivoted_df,
                   final_df, fta_bins, grecid_bins, vrecid_bins, files, error>>

\* .astype(float).astype(pd.Int64Dtype()) of a cell that is null or holds a
\* whole number: the number as an integer, the null as pd.NA
AsInt64(c) == IF isnull(c) THEN Null ELSE Some(Val(c))

\* .replace(r_dict) with r_dict = {"Male" : 1, "Female" : 0}
r_dict(c) ==
    IF c = Some("Male") THEN Some(1)
    ELSE IF c = Some("Female") THEN Some(0)
    ELSE c

\* ext_people after lines 222-231
Retyped(df) ==
    Frame(df.columns,
          [i \in 1..Len(df.rows) |->
              [c \in df.columns |->
                  IF c = "male" THEN r_dict(df.rows[i][c])
                  ELSE IF contains(Chars[c], Chars["ds_"]) THEN AsInt64(df.rows[i][c])
                  ELSE df.rows[i][c]]])

Retype ==
    /\ pc = "retype"
    /\ \A i \in 1..Len(ext_people.rows) : ~isnull(ext_people.rows[i].male)
    /\ ext_people' = Retyped(ext_people)
    /\ pc' = "make_bins"
    /\ UNCHANGED <<dfd, first_arrest, compas_df, first_screening_df, pivoted_df,
                   final_df, fta_bins, grecid_bins, vrecid_bins, files, error>>

\* Line 231 on a null sex: None is no int64.
RetypeFails ==
    /\ pc = "retype"
    /\ \E i \in 1..Len(ext_people.rows) : isnull(ext_people.rows[i].male)
    /\ error' = "TypeError"
    /\ pc' = "stopped"
    /\ UNCHANGED <<dfd, first_arrest, ext_people, compas_df, first_screening_df,
                   pivoted_df, final_df, fta_bins, grecid_bins, vrecid_bins, files>>

-----------------------------------------------------------------------------
(* Make the lists of binnings *)

\* Bins of the first row of every person only
bins_FirstPerPerson(df, t) ==
    LET of_type == {i \in 1..Len(df.rows) : df.rows[i].type_of_assessment = Some(t)}
    IN  dropna(project(drop_duplicates(Frame(df.columns, Filter(df.rows, of_type)),
                                       "person_id"),
                       {"raw_score", "decile_score", "score_text"}))

\* df[df["type_of_assessment"] == t][["raw_score", "decile_score",
\* "score_text"]].dropna() of lines 250-257
bins(df, t) ==
    LET of_type == {i \in 1..Len(df.rows) : df.rows[i].type_of_assessment = Some(t)}
    IN  dropna(project(Frame(df.columns, Filter(df.rows, of_type)),
                       {"raw_score", "decile_score", "score_text"}))

MakeBins ==
    /\ pc = "make_bins"
    /\ fta_bins' = bins(valid(dfd.compas), TypeFTA)
    /\ grecid_bins' = bins(valid(dfd.compas), TypeRecid)
    /\ vrecid_bins' = bins(valid(dfd.compas), TypeViolence)
    /\ pc' = "dropna"
    /\ UNCHANGED <<dfd, first_arrest, ext_people, compas_df, first_screening_df,
                   pivoted_df, final_df, files, error>>

-----------------------------------------------------------------------------
(* Write out to .csv files *)

DropNa ==
    /\ pc = "dropna"
    /\ ext_people' = dropna(ext_people)
    /\ pc' = "write_compas"
    /\ UNCHANGED <<dfd, first_arrest, compas_df, first_screening_df, pivoted_df,
                   final_df, fta_bins, grecid_bins, vrecid_bins, files, error>>

\* df.to_csv(path, index=False)
to_csv(df, path) == Append(files, [path |-> path, frame |-> df])

WriteCompas ==
    /\ pc = "write_compas"
    /\ files' = to_csv(ext_people, "data/compas.csv")
    /\ pc' = "write_fta"
    /\ UNCHANGED <<dfd, first_arrest, ext_people, compas_df, first_screening_df,
                   pivoted_df, final_df, fta_bins, grecid_bins, vrecid_bins, error>>

WriteFta ==
    /\ pc = "write_fta"
    /\ files' = to_csv(fta_bins, "data/fta_bins.csv")
    /\ pc' = "write_grecid"
    /\ UNCHANGED <<dfd, first_arrest, ext_people, compas_df, first_screening_df,
                   pivoted_df, final_df, fta_bins, grecid_bins, vrecid_bins, error>>

WriteGrecid ==
    /\ pc = "write_grecid"
    /\ files' = to_csv(grecid_bins, "data/grecid_bins.csv")
    /\ pc' = "write_vrecid"
    /\ UNCHANGED <<dfd, first_arrest, ext_people, compas_df, first_screening_df,
                   pivoted_df, final_df, fta_bins, grecid_bins, vrecid_bins, error>>

WriteVrecid ==
    /\ pc = "write_vrecid"
    /\ files' = to_csv(vrecid_bins, "data/vrecid_bins.csv")
    /\ pc' = "finished"
    /\ UNCHANGED <<dfd, first_arrest, ext_people, compas_df, first_screening_df,
                   pivoted_df, final_df, fta_bins, grecid_bins, vrecid_bins, error>>

\* A failing write that removes the files written before it
WriteFails_RollsBack ==
    /\ pc \in {"write_compas", "write_fta", "write_grecid", "write_vrecid"}
    /\ files' = <<>>
    /\ error' = "OSError"
    /\ pc' = "stopped"
    /\ UNCHANGED <<dfd, first_arrest, ext_people, compas_df, first_screening_df,
                   pivoted_df, final_df, fta_bins, grecid_bins, vrecid_bins>>

\* A to_csv that raises (no data directory, a full disk): the file is not
\* written and the cell stops.
WriteFails ==
    /\ pc \in {"write_compas", "write_fta", "write_grecid", "write_vrecid"}
    /\ error' = "OSError"
    /\ pc' = "stopped"
    /\ UNCHANGED <<dfd, first_arrest, ext_people, compas_df, first_screening_df,
                   pivoted_df, final_df, fta_bins, grecid_bins, vrecid_bins, files>>

\* print("Finished writing frames to csv files.")
Finished ==
    /\ pc = "finished"
    /\ pc' = "done"
    /\ UNCHANGED <<dfd, first_arrest, ext_people, compas_df, first_screening_df,
                   pivoted_df, final_df, fta_bins, grecid_bins, vrecid_bins, files, error>>

Next ==
    \/ FirstArrest
    \/ CopyPeople
    \/ CopyPeopleFails
    \/ MergeFirstArrest
    \/ AgeAtFirstArrest
    \/ FilterCompas
    \/ FirstScreening
    \/ Pivot
    \/ PivotFails
    \/ JoinScores
    \/ RenameColumns
    \/ Retype
    \/ RetypeFails
    \/ MakeBins
    \/ DropNa
    \/ WriteCompas
    \/ WriteFta
    \/ WriteGrecid
    \/ WriteVrecid
    \/ WriteFails
    \/ Finished

Spec == Init /\ [][Next]_vars

-----------------------------------------------------------------------------
(* What the properties below speak of *)

Stages ==
    <<"first_arrest", "copy_people", "merge_first_arrest", "age_at_first_arrest",
      "filter_compas", "first_screening", "pivot", "join_scores", "rename_columns",
      "retype", "make_bins", "dropna", "write_compas", "write_fta", "write_grecid",
      "write_vrecid", "finished", "done">>

StageNo(s) == CHOOSE n \in 1..Len(Stages) : Stages[n] = s

\* The statement group the run is at, or stopped in
Position ==
    IF pc # "stopped" THEN StageNo(pc)
    ELSE IF error = "AttributeError" THEN StageNo("copy_people")
    ELSE IF error = "ValueError" THEN StageNo("pivot")
    ELSE IF error = "TypeError" THEN StageNo("retype")
    ELSE StageNo("write_compas") + Len(files)

\* Every statement group before s has run
Reached(s) == Position >= StageNo(s)

People == dfd.people.rows

Arrests == dfd.casearrest.rows

Compas == dfd.compas.rows

\* The casearrest rows of the person of people row i
ArrestsOf(i) == {a \in 1..Len(Arrests) : Arrests[a].person_id = People[i].id}

\* The rows of ext_people of the person of people row i
RowsOf(i) == {j \in 1..Len(ext_people.rows) : ext_people.rows[j].person_id = People[i].id}

\* ext_people holds the persons' ids and their ages at first arrest
HasAges == Reached("filter_compas") /\ ~Reached("rename_columns")

\* The calendar date of a text "YYYY-MM-DD HH:MM:SS", as a text
DateOf(text) == <<text[1]>>

\* The earliest calendar date among the arrests of the person of row i
EarliestArrest(i) ==
    CHOOSE d \in {DateOf(Val(Arrests[a].arrest_date)) : a \in ArrestsOf(i)} :
        \A a \in ArrestsOf(i) : ~LexLess(Val(Arrests[a].arrest_date)[1], d[1])

C2_ArrestGivesYearsToEarliestArrest ==
    HasAges =>
        \A i \in 1..Len(People) :
            ArrestsOf(i) # {} =>
                /\ RowsOf(i) # {}
                /\ \A j \in RowsOf(i) :
                        ext_people.rows[j].age_at_first_arrest =
                            Some(round(4 * (strptime(EarliestArrest(i))
                                            - strptime(DateOf(Val(People[i].dob)))),
                                       1461))

\* A person with two arrest rows of the earliest date has an age at first arrest.
C2_Witness ==
    /\ HasAges
    /\ \E i \in 1..Len(People) : \E a, b \in ArrestsOf(i) :
            /\ a # b
            /\ DateOf(Val(Arrests[a].arrest_date)) = EarliestArrest(i)
            /\ DateOf(Val(Arrests[b].arrest_date)) = EarliestArrest(i)

\* The "N/A" rows of the compas table
Invalid == {n \in 1..Len(Compas) : Compas[n].score_text = Some("N/A")}

\* The rows of the compas table that line 162 keeps
Valid == {n \in 1..Len(Compas) : Compas[n].score_text # Some("N/A")}

\* The compas row a row of first_screening_df comes from, by its id
Source(r) == CHOOSE n \in 1..Len(Compas) : Compas[n].id = r.id

\* The smallest assessment id among the rows ns of compas
FirstBatch(ns) ==
    CHOOSE a \in {Compas[n].compas_assessment_id : n \in ns} :
        \A n \in ns : Val(a) <= Val(Compas[n].compas_assessment_id)

\* The valid rows of the person of compas row n
ValidOf(n) == {m \in Valid : Compas[m].person_id = Compas[n].person_id}

\* The value columns of the pivoted table
ValueColumns == pivoted_df.columns \ {"person_id"}

\* The cell of row n of compas that column c of the pivoted table is of
\* the same kind as: the row's raw score for a raw score column, ...
SameKindCell(n, c) ==
    IF contains(Chars[c], Chars["raw_score"]) THEN Compas[n].raw_score
    ELSE IF contains(Chars[c], Chars["decile_score"]) THEN Compas[n].decile_score
    ELSE Compas[n].score_text

BinTables == <<fta_bins, grecid_bins, vrecid_bins>>

\* C3: no "N/A" row of compas is in a bin table, gives a value to the
\* pivoted columns, or decides which batch of a person is the first.
C3_InvalidRowsAreNowhere ==
    /\ \A b \in 1..3 : \A k \in 1..Len(BinTables[b].rows) :
            /\ BinTables[b].rows[k].score_text # Some("N/A")
            /\ \A n \in Invalid : BinTables[b].rows[k].raw_score # Compas[n].raw_score
    /\ \A k \in 1..Len(pivoted_df.rows) : \A c \in ValueColumns : \A n \in Invalid :
            pivoted_df.rows[k][c] # SameKindCell(n, c)
    /\ \A k \in 1..Len(first_screening_df.rows) :
            LET n == Source(first_screening_df.rows[k])
            IN  /\ n \in Valid
                /\ Compas[n].compas_assessment_id = FirstBatch(ValidOf(n))

\* The bins are made, and a person's "N/A" row is of an earlier batch than
\* a valid row of the person that the pivot holds.
C3_Witness ==
    /\ Reached("dropna")
    /\ pivoted_df.rows # <<>>
    /\ \E n \in Invalid : \E m \in Valid :
            /\ Compas[n].person_id = Compas[m].person_id
            /\ Val(Compas[n].compas_assessment_id) < Val(Compas[m].compas_assessment_id)

\* The written person table, if it is written
Written == {k \in 1..Len(files) : files[k].path = "data/compas.csv"}

\* C4: the person table in data/compas.csv has no null in any column of
\* any row.
C4_WrittenPersonsHaveNoNull ==
    \A k \in Written :
        \A j \in 1..Len(files[k].frame.rows) : \A c \in files[k].frame.columns :
            ~isnull(files[k].frame.rows[j][c])

\* The person table is written with fewer rows than there are persons, one
\* of them without all three assessments.
C4_Witness ==
    /\ \E k \in Written :
            /\ files[k].frame.rows # <<>>
            /\ Len(files[k].frame.rows) < Len(People)
    /\ \E j \in 1..Len(final_df.rows) : \E c \in final_df.columns :
            isnull(final_df.rows[j][c])

\* C5: the rows kept for the pivot are the valid rows of the smallest
\* valid assessment id of their person, each once: all the rows of that
\* batch and no row of a later one.
C5_FirstBatchIsKept ==
    Reached("pivot") =>
        /\ {first_screening_df.rows[k].id : k \in 1..Len(first_screening_df.rows)}
                = {Compas[n].id : n \in {m \in Valid :
                        Compas[m].compas_assessment_id = FirstBatch(ValidOf(m))}}
        /\ \A j, k \in 1..Len(first_screening_df.rows) :
                first_screening_df.rows[j].id = first_screening_df.rows[k].id => j = k

\* A person has two valid rows in the first batch and one in a later batch.
C5_Witness ==
    /\ Reached("pivot")
    /\ \E n, m, l \in Valid :
            /\ n # m
            /\ Compas[n].person_id = Compas[m].person_id
            /\ Compas[n].person_id = Compas[l].person_id
            /\ Compas[n].compas_assessment_id = Compas[m].compas_assessment_id
            /\ Val(Compas[n].compas_assessment_id) < Val(Compas[l].compas_assessment_id)

\* The final names of the columns of an assessment type: raw score, decile
\* score and score text
FinalNames ==
    (TypeFTA :> <<"rs_fta", "ds_fta", "fta_text">>) @@
    (TypeRecid :> <<"rs_grecid", "ds_grecid", "grecid_text">>) @@
    (TypeViolence :> <<"rs_vrecid", "ds_vrecid", "vrecid_text">>)

\* The rows of first_screening_df of the person of people row i and type t
Screened(i, t) ==
    {k \in 1..Len(first_screening_df.rows) :
        /\ first_screening_df.rows[k].person_id = People[i].id
        /\ first_screening_df.rows[k].type_of_assessment = Some(t)}

\* The person of people row i has exactly one kept row of every type
OneRowPerType(i) ==
    \A t \in DOMAIN FinalNames : Cardinality(Screened(i, t)) = 1

\* ext_people has its final column names and still one row for every row of
\* people, in the order of people
IsWide == Reached("retype") /\ ~Reached("write_compas")

\* C6: a person with exactly one kept row of every assessment type has, in
\* the wide table, the raw score, decile score and score text of every
\* type unchanged under the names rs_X, ds_X and X_text of that type.
C6_PivotKeepsTheTriples ==
    IsWide =>
        \A i \in 1..Len(People) :
            OneRowPerType(i) =>
                \A t \in DOMAIN FinalNames :
                    LET r == first_screening_df.rows[CHOOSE k \in Screened(i, t) : TRUE]
                        w == ext_people.rows[i]
                    IN  /\ {FinalNames[t][n] : n \in 1..3} \subseteq ext_people.columns
                        /\ w[FinalNames[t][1]] = r.raw_score
                        /\ w[FinalNames[t][2]] = r.decile_score
                        /\ w[FinalNames[t][3]] = r.score_text

\* The wide table is retyped and holds a person with one kept row of every type.
C6_Witness ==
    /\ Reached("make_bins")
    /\ ~Reached("write_compas")
    /\ \E i \in 1..Len(People) : OneRowPerType(i)

\* C7: the joins duplicate no person: the person table has one row for
\* every row of people until the nulls are dropped, with the ids of people
\* while it has the id column, and at most as many rows afterwards, as has
\* the written table.
C7_OneRowPerPerson ==
    /\ Reached("merge_first_arrest") /\ ~Reached("write_compas") =>
            Len(ext_people.rows) = Len(People)
    /\ Reached("merge_first_arrest") /\ ~Reached("rename_columns") =>
            \A i \in 1..Len(People) : ext_people.rows[i].person_id = People[i].id
    /\ Reached("write_compas") => Len(ext_people.rows) <= Len(People)
    /\ \A k \in Written : Len(files[k].frame.rows) <= Len(People)

\* The scores are joined for a person with two arrest rows and two kept
\* assessment rows.
C7_Witness ==
    /\ Reached("rename_columns")
    /\ \E i \in 1..Len(People) :
            /\ Cardinality(ArrestsOf(i)) >= 2
            /\ Cardinality({k \in 1..Len(first_screening_df.rows) :
                    first_screening_df.rows[k].person_id = People[i].id}) >= 2

\* The rows of compas of type t that are not "N/A" and have a raw score, a
\* decile score and a score text, in the order of the table
Binned(t) ==
    Filter(Compas, {n \in 1..Len(Compas) :
                        /\ Compas[n].type_of_assessment = Some(t)
                        /\ Compas[n].score_text # Some("N/A")
                        /\ ~isnull(Compas[n].raw_score)
                        /\ ~isnull(Compas[n].decile_score)
                        /\ ~isnull(Compas[n].score_text)})

\* C8: the bin table of a type holds one row (raw_score, decile_score,
\* score_text) for every compas row of the type that is not "N/A" and has
\* the three fields, whatever its person and batch, and no other row.
C8_BinsHoldEveryScoredRow ==
    Reached("dropna") =>
        \A b \in 1..3 :
            /\ Len(BinTables[b].rows) = Len(Binned(Types[b]))
            /\ \A k \in 1..Len(BinTables[b].rows) :
                    /\ BinTables[b].rows[k].raw_score = Binned(Types[b])[k].raw_score
                    /\ BinTables[b].rows[k].decile_score = Binned(Types[b])[k].decile_score
                    /\ BinTables[b].rows[k].score_text = Binned(Types[b])[k].score_text

\* The bins are made of a table with two scored rows of one type and one
\* person, of two batches.
C8_Witness ==
    /\ Reached("dropna")
    /\ \E t \in DOMAIN FinalNames : \E n, m \in 1..Len(Binned(t)) :
            /\ n # m
            /\ Binned(t)[n].person_id = Binned(t)[m].person_id
            /\ Binned(t)[n].compas_assessment_id # Binned(t)[m].compas_assessment_id

\* The paths of the output files, in the order of lines 283-288
WriteOrder ==
    <<"data/compas.csv", "data/fta_bins.csv", "data/grecid_bins.csv", "data/vrecid_bins.csv">>

\* The frames the files are written from, in the same order
Frames == <<ext_people, fta_bins, grecid_bins, vrecid_bins>>

\* C9: the files are written in the order compas.csv, fta_bins.csv,
\* grecid_bins.csv, vrecid_bins.csv, each by the writer and after every
\* transformation; a write that fails leaves the files already written and
\* writes no other, and a failure before the writer leaves no file.
C9_WritesInOrderWithoutRollback ==
    [][/\ \/ files' = files
          \/ /\ Len(files) < Len(WriteOrder)
             /\ pc = Stages[StageNo("write_compas") + Len(files)]
             /\ files' = Append(files, [path |-> WriteOrder[Len(files) + 1],
                                        frame |-> Frames[Len(files) + 1]])
       /\ error' # "" => files' = files /\ pc' = "stopped"
       /\ error' \in {"AttributeError", "ValueError", "TypeError"} => files' = <<>>
       /\ pc' = "done" => Len(files') = Len(WriteOrder)]_vars

\* The third write failed and the two files written before it are there.
C9_Witness ==
    /\ pc = "stopped"
    /\ error = "OSError"
    /\ Len(files) = 2

\* Some person of the people table has no date of birth
MissingDob == \E i \in 1..Len(People) : isnull(People[i].dob)

====
